---------------------------- MODULE Spec2Model ----------------------------
(***************************************************************************)
(* A model of sqltyper: the statement-analysis pipeline                    *)
(* (sqlToStatementDescription), the code generator's return type / return  *)
(* value tables, the clients and their caches, the transforms loader and   *)
(* the command line driver (batch, --check and --watch runs).              *)
(*                                                                         *)
(* Strings that the program builds by concatenation are modelled as        *)
(* sequences of string tokens; a file's text is a record of the pieces the *)
(* generator's template is filled with.                                    *)
(***************************************************************************)
EXTENDS Integers, Sequences, FiniteSets, TLC

VARIABLES
    \* ---- one connection and its clients (clients.ts)
    catalog,        \* the database: columns of table t declared NOT NULL
    schemaClients,  \* heap of schema client objects: id -> cached catalog facts
    typeClients,    \* heap of type client objects: id -> [transforms, arrays]
    pgTypes,        \* the database: the array type oids that exist
    clients,        \* the Clients record in use
    prevClients,    \* the Clients record handed to the last clearCache call
    \* ---- the last analysis on that connection
    sql,            \* the SQL text handed to sqlToStatementDescription
    result,         \* what it returned (an Either) and the stages it invoked
    gen,            \* the TypeScript generated from it
    \* ---- the transforms loader
    tfile,          \* the parsed transforms file
    tresult,        \* what getTransforms returned or threw
    \* ---- a run of the command line tool
    opts,           \* the parsed arguments
    dirents,        \* the SQL side of the file system: dir -> its entries
    texts,          \* the SQL side of the file system: file -> its text
    fs,             \* the output side of the file system: path -> contents
    fs0,            \* the output side of the file system before the run
    tasks,          \* what mapDirectories still has to do, in order
    fileResults,    \* what fileProcessor returned for each file so far
    dirResults,     \* what dirProcessor returned for each directory so far
    status,         \* the exit status of main, once it returned
    \* ---- watch mode (watchDirectories)
    watching,       \* the watchers are registered
    eventBuffer,    \* eventBuffer: the events not yet taken up
    handlingEvents, \* the flag handlingEvents
    moduleDirs,     \* moduleDirs: the directories' modules, as last assigned
    inFlight,       \* the file processings that have begun and not ended
    nEvents,        \* how many watch callbacks have run
    \* ---- the query text of a generated function (codegen.ts)
    qtypes,         \* the type client handed to generateTypeScript
    qstmt,          \* the statement: its text, character by character, and params
    qtext           \* the query text generated from it

avars == <<catalog, schemaClients, typeClients, pgTypes, clients, prevClients,
           sql, result, gen>>
tvars == <<tfile, tresult>>
cvars == <<opts, dirents, texts, fs, fs0, tasks, fileResults, dirResults, status>>
wvars == <<watching, eventBuffer, handlingEvents, moduleDirs, inFlight, nEvents>>
qvars == <<qtypes, qstmt, qtext>>
vars == <<avars, tvars, cvars, wvars, qvars>>

-----------------------------------------------------------------------------
(* Bounds of the model.                                                    *)

MaxCols == 3
MaxWarnings == 1
MaxClears == 2
MaxEntries == 2
MaxEvents == 3
MaxParams == 10

-----------------------------------------------------------------------------
(* Generic helpers.                                                        *)

SeqsUpTo(S, n) == UNION {[1..k -> S] : k \in 0..n}

Left(v) == [tag |-> "Left", val |-> v]
Right(v) == [tag |-> "Right", val |-> v]
isLeft(e) == e.tag = "Left"
isRight(e) == e.tag = "Right"

Some(v) == [tag |-> "Some", val |-> v]
None == [tag |-> "None"]
isSome(o) == o.tag = "Some"
isNone(o) == o.tag = "None"

RECURSIVE Join(_, _)
\* Array.prototype.join: the elements (token sequences) with sep between them.
Join(parts, sep) ==
    IF Len(parts) = 0 THEN <<>>
    ELSE IF Len(parts) = 1 THEN parts[1]
    ELSE parts[1] \o <<sep>> \o Join(Tail(parts), sep)

-----------------------------------------------------------------------------
(* SQL texts.  A text is described by what the analysis can find out about *)
(* it: whether its named placeholders are well formed, whether the server  *)
(* accepts it on prepare/describe, the names of the result columns the     *)
(* server reports (in server order), the cardinality class the statement   *)
(* has, and how many of its columns inference cannot trace.                *)

ColNames == {"id", "name"}
ColumnOid == [id |-> 23, name |-> 25]
RowCounts == {"zero", "one", "zeroOrOne", "many"}
CodegenTargets == {"pg", "postgres"}

BadPlaceholderText ==
    [placeholdersOk |-> FALSE, serverAccepts |-> TRUE, columns |-> <<>>,
     rowCount |-> "zero", unresolved |-> 0]
ServerErrorText ==
    [placeholdersOk |-> TRUE, serverAccepts |-> FALSE, columns |-> <<>>,
     rowCount |-> "zero", unresolved |-> 0]
GoodTexts ==
    {[placeholdersOk |-> TRUE, serverAccepts |-> TRUE, columns |-> cs,
      rowCount |-> rc, unresolved |-> u] :
        cs \in SeqsUpTo(ColNames, MaxCols),
        rc \in RowCounts,
        u \in 0..MaxWarnings}
SqlTexts ==
    {BadPlaceholderText, ServerErrorText}
    \cup {t \in GoodTexts : (t.columns = <<>>) <=> (t.rowCount = "zero")}

ErrorMessage(msg, detail) == [message |-> msg, detail |-> detail]

-----------------------------------------------------------------------------
(* The stages of the pipeline.  A value flowing through the pipe is the    *)
(* TaskEither's Either, together with the stages run so far and the schema *)
(* client's cache, which the inference stage reads and fills.              *)

\* preprocess.ts: rewrites named placeholders; fails on a malformed one.
preprocessSQL(text) ==
    IF text.placeholdersOk
    THEN Right([sql |-> text, paramNames |-> <<>>])
    ELSE Left(ErrorMessage("Malformed placeholder", {}))

\* describe.ts: prepare + describe on the connection.  Before inference every
\* column is conservatively nullable and the statement may return many rows.
describeStatement(processed) ==
    IF processed.sql.serverAccepts
    THEN Right([sql |-> processed.sql,
                params |-> processed.paramNames,
                columns |-> [i \in 1..Len(processed.sql.columns) |->
                               [name |-> processed.sql.columns[i],
                                oid |-> ColumnOid[processed.sql.columns[i]],
                                nullable |-> TRUE]],
                rowCount |-> "many"])
    ELSE Left(ErrorMessage("Server error", {}))

RECURSIVE validateLoop(_, _, _, _)
\* The forEach of validateStatement: <<columnNames, conflicts>> after columns i..
validateLoop(columns, i, columnNames, conflicts) ==
    IF i > Len(columns) THEN <<columnNames, conflicts>>
    ELSE IF columns[i].name \in columnNames
         THEN validateLoop(columns, i + 1, columnNames,
                           conflicts \cup {columns[i].name})
         ELSE validateLoop(columns, i + 1,
                           columnNames \cup {columns[i].name}, conflicts)

\* A plausible bug: only a column equal to its predecessor is a conflict.
validateStatementAdjacent(stmt) ==
    LET conflicts == {stmt.columns[i].name : i \in
                        {j \in 2..Len(stmt.columns) :
                            stmt.columns[j].name = stmt.columns[j - 1].name}}
    IN  IF Cardinality(conflicts) # 0
        THEN Left(ErrorMessage("Duplicate output columns", conflicts))
        ELSE Right(stmt)

\* codegen.ts validateStatement.  The message lists the conflicting names
\* sorted and joined, which carries the set of conflicts and nothing more.
validateStatement(stmt) ==
    LET conflicts == validateLoop(stmt.columns, 1, {}, {})[2]
    IN  IF Cardinality(conflicts) # 0
        THEN Left(ErrorMessage("Duplicate output columns", conflicts))
        ELSE Right(stmt)

\* schema.ts: the catalog facts of table t, from the cache when it holds them.
NoFacts == [known |-> FALSE, notNull |-> {}]
getTable(cache, cat) ==
    IF cache.known THEN cache ELSE [known |-> TRUE, notNull |-> cat]

\* infer.ts: resolves every column's nullability and the row count, and
\* reports untraceable columns as warnings.  It returns a Warn, never an error.
inferStatementNullability(cache, cat, stmt) ==
    LET facts == getTable(cache, cat)
    IN  [value |-> [stmt EXCEPT
                      !.columns = [i \in 1..Len(stmt.columns) |->
                          [stmt.columns[i] EXCEPT
                             !.nullable = stmt.columns[i].name \notin facts.notNull]],
                      !.rowCount = stmt.sql.rowCount],
         warnings |-> [i \in 1..stmt.sql.unresolved |-> "unresolved column"]]

inferCache(cache, cat, stmt) ==
    IF Len(stmt.columns) > 0 THEN getTable(cache, cat) ELSE cache

\* The one element of a set of one element: a value that is computed once
\* and then handed on.
only(S) == CHOOSE x \in S : TRUE

\* TaskEither.chain(f)(m): f(m) is what f makes of m, and is used (f runs)
\* only when m is a Right.
chain(m, fm) == IF isLeft(m.e) THEN m ELSE fm

preprocessTask(m) ==
    [m EXCEPT !.e = preprocessSQL(m.e.val),
              !.trace = Append(m.trace, "preprocess")]
describeTask(m) ==
    [m EXCEPT !.e = describeStatement(m.e.val),
              !.trace = Append(m.trace, "describe")]
validateTask(m) ==
    [m EXCEPT !.e = validateStatement(m.e.val),
              !.trace = Append(m.trace, "validate")]
\* TaskEither.rightTask(inferStatementNullability(...)): always a Right.
inferTask(cat, m) ==
    [m EXCEPT !.e = Right(inferStatementNullability(m.cache, cat, m.e.val)),
              !.trace = Append(m.trace, "infer"),
              !.cache = inferCache(m.cache, cat, m.e.val)]

\* The links of the pipe: TaskEither.chain(stage) applied to m.
chainDescribe(m) == only({chain(v, describeTask(v)) : v \in {m}})
chainValidate(m) == only({chain(v, validateTask(v)) : v \in {m}})
chainInfer(cat, m) == only({chain(v, inferTask(cat, v)) : v \in {m}})

\* Validation of a statement that inference has already been run on.
validateInferred(m) ==
    [m EXCEPT !.e = IF isLeft(validateStatement(m.e.val.value))
                    THEN validateStatement(m.e.val.value) ELSE m.e,
              !.trace = Append(m.trace, "validate")]
chainValidateInferred(m) == only({chain(v, validateInferred(v)) : v \in {m}})

\* Task.of(sql)
taskOf(cache, text) == [e |-> Right(text), trace |-> <<>>, cache |-> cache]

\* A plausible bug: the statement is validated only after inference.
sqlToStatementDescriptionSwapped(cache, cat, text) ==
    chainValidateInferred(
        chainInfer(cat, chainDescribe(preprocessTask(taskOf(cache, text)))))

\* index.ts sqlToStatementDescription.
sqlToStatementDescription(cache, cat, text) ==
    chainInfer(cat,
        chainValidate(chainDescribe(preprocessTask(taskOf(cache, text)))))

-----------------------------------------------------------------------------
(* The type client (tstype.ts) and the code generator (codegen.ts).        *)

TableColumns == {"id"}
UserArrayOid == 16400
NoTransforms == [o \in {} |-> "none"]
TextTransform ==
    [o \in {25} |->
        [tsType |-> "Text", serializeFunc |-> "serializeText", import |-> ""]]

\* typeClient(transforms, postgresClient): reads the array types once.
typeClient(transforms, types) == [transforms |-> transforms, arrays |-> types]

\* TypeClient.tsType: a transform wins, then the built-in table; a nullable
\* value may also be null.
tsType(tc, oid, nullable) ==
    LET base == IF oid \in DOMAIN tc.transforms THEN tc.transforms[oid].tsType
                ELSE IF oid = 23 THEN "number"
                ELSE "string"
    IN  IF nullable THEN <<base, " | null">> ELSE <<base>>

\* str holds neither a backslash nor a quote in this model, so the two
\* replace calls leave it as it is.
stringLiteral(str) == <<"'", str, "'">>

columnType(tc, column) ==
    stringLiteral(column.name) \o <<": ">> \o tsType(tc, column.oid, column.nullable)

\* A plausible bug: the zeroOrOne case forgets the null alternative.
funcReturnTypeNoNull(tc, stmt) ==
    LET columnTypes == [i \in 1..Len(stmt.columns) |-> columnType(tc, stmt.columns[i])]
        rowType == <<"{ ">> \o Join(columnTypes, "; ") \o <<" }">>
    IN  CASE stmt.rowCount = "zero" -> <<"number">>
          [] stmt.rowCount = "one" -> rowType
          [] stmt.rowCount = "zeroOrOne" -> rowType
          [] stmt.rowCount = "many" -> <<"Array<">> \o rowType \o <<">">>

funcReturnType(tc, stmt) ==
    LET columnTypes == [i \in 1..Len(stmt.columns) |-> columnType(tc, stmt.columns[i])]
        rowType == <<"{ ">> \o Join(columnTypes, "; ") \o <<" }">>
    IN  CASE stmt.rowCount = "zero" -> <<"number">>
          [] stmt.rowCount = "one" -> rowType
          [] stmt.rowCount = "zeroOrOne" -> rowType \o <<" | null">>
          [] stmt.rowCount = "many" -> <<"Array<">> \o rowType \o <<">">>

outputValue(target, stmt) ==
    LET rows == IF target = "pg" THEN "result.rows" ELSE "result"
        count == IF target = "pg" THEN "result.rowCount" ELSE "result.count"
    IN  CASE stmt.rowCount = "zero" -> <<count>>
          [] stmt.rowCount = "one" -> <<rows, "[0]">>
          [] stmt.rowCount = "zeroOrOne" -> <<count, " > 0 ? ", rows, "[0]", " : null">>
          [] stmt.rowCount = "many" -> <<rows>>

\* Arr.uniq over the transforms' serialize function declarations.
serializeFuncs(tc) ==
    {<<tc.transforms[o].serializeFunc, ": (_: ", tc.transforms[o].tsType,
       ") => string">> : o \in DOMAIN tc.transforms}

extraImports(tc) ==
    {tc.transforms[o].import : o \in {x \in DOMAIN tc.transforms :
                                         tc.transforms[x].import # ""}}

\* generateTypeScript: the pieces generators[target] fills its template with.
\* Only the postgres template mentions the serialize functions.
generateTypeScript(tc, sourceFileName, target, module, funcName, stmt) ==
    [sourceFileName |-> sourceFileName,
     target |-> target,
     module |-> module,
     funcName |-> funcName,
     sql |-> stmt.sql,
     params |-> <<>>,
     returnType |-> funcReturnType(tc, stmt),
     queryValues |-> <<>>,
     outputValue |-> outputValue(target, stmt),
     extraImports |-> extraImports(tc),
     serializeFuncs |-> IF target = "postgres" THEN serializeFuncs(tc) ELSE {}]

-----------------------------------------------------------------------------
(* The query text (codegen.ts queryValues and generators).  The text of a  *)
(* statement is a sequence of characters here; a piece of text that holds  *)
(* neither a dollar sign nor a digit may stand as one element.             *)

DigitChars == <<"0", "1", "2", "3", "4", "5", "6", "7", "8", "9">>

RECURSIVE toString(_)
\* the decimal digits of a number
toString(k) ==
    IF k < 10 THEN <<DigitChars[k + 1]>>
    ELSE toString(k \div 10) \o <<DigitChars[(k % 10) + 1]>>

\* the placeholder $k
placeholder(k) == <<"$">> \o toString(k)

RECURSIVE FlattenRange(_, _, _)
\* seqs[lo] \o ... \o seqs[hi]
FlattenRange(seqs, lo, hi) ==
    IF lo > hi THEN <<>>
    ELSE IF lo = hi THEN seqs[lo]
    ELSE FlattenRange(seqs, lo, (lo + hi) \div 2)
         \o FlattenRange(seqs, ((lo + hi) \div 2) + 1, hi)
Flatten(seqs) == FlattenRange(seqs, 1, Len(seqs))

\* The names of params: synthetic ($1, $2, ...) or given (a, then b1, b2, ...)
syntheticName(k) == placeholder(k)
givenName(k) == <<"p">> \o toString(k)

getTransform(tc, oid) ==
    IF oid \in DOMAIN tc.transforms THEN Some(tc.transforms[oid]) ELSE None
isArray(tc, oid) == oid \in tc.arrays

hasOnlyPositionalParams(stmt) ==
    \A i \in 1..Len(stmt.params) : stmt.params[i].synthetic

\* queryValues: one expression per param.
queryValue(tc, param, positionalOnly, encodeArray, serializeFunctionOnConnection) ==
    LET p == (IF positionalOnly THEN <<>> ELSE <<"params.">>) \o param.name
        transform == getTransform(tc, param.type.oid)
        pWithTransform ==
            IF isSome(transform)
            THEN p \o <<" && ">>
                 \o (IF serializeFunctionOnConnection THEN <<"sql.types.">> ELSE <<>>)
                 \o <<transform.val.serializeFunc, "(">> \o p \o <<")">>
            ELSE p
    IN  IF encodeArray /\ isArray(tc, param.type.oid)
        THEN <<"sql.array(">> \o pWithTransform \o <<")">>
        ELSE pWithTransform

queryValues(tc, stmt, positionalOnly, encodeArray, serializeFunctionOnConnection) ==
    [i \in 1..Len(stmt.params) |->
        queryValue(tc, stmt.params[i], positionalOnly, encodeArray,
                   serializeFunctionOnConnection)]

matchesAt(acc, pattern, i) ==
    /\ i >= 1
    /\ i + Len(pattern) - 1 <= Len(acc)
    /\ SubSeq(acc, i, i + Len(pattern) - 1) = pattern

\* acc.replace(new RegExp(pattern, 'gi'), replacement) for a pattern that is
\* a dollar sign and digits and a replacement without replacement patterns.
\* Two matches of such a pattern never overlap, so every place where the
\* pattern stands is replaced.
replaceAll(acc, pattern, replacement) ==
    Flatten([i \in 1..Len(acc) |->
                IF matchesAt(acc, pattern, i) THEN replacement
                ELSE IF \E j \in (i - Len(pattern) + 1)..(i - 1) :
                           matchesAt(acc, pattern, j)
                THEN <<>>
                ELSE <<acc[i]>>])

\* '${' + p + '}'
interpolation(p) == <<"$", "{">> \o p \o <<"}">>

RECURSIVE reduceRight(_, _, _)
\* queryValues.reduceRight(..., sql), i being the number of values to go
reduceRight(values, i, acc) ==
    IF i = 0 THEN acc
    ELSE reduceRight(values, i - 1,
                     replaceAll(acc, placeholder(i), interpolation(values[i])))

substitutedSqlStatement(text, values) == reduceRight(values, Len(values), text)

\* What generators[target] hands to the driver: the text and the values (pg)
\* or the text with the values interpolated (postgres).
queryText(tc, target, stmt) ==
    LET values == queryValues(tc, stmt, hasOnlyPositionalParams(stmt),
                              target = "postgres", target = "postgres")
    IN  [target |-> target,
         values |-> values,
         text |-> IF target = "postgres"
                  THEN substitutedSqlStatement(stmt.sql, values)
                  ELSE stmt.sql]

\* Statements with n params: the text uses the placeholders in some order,
\* separated by commas.
ParamOrders(n) ==
    {[i \in 1..n |-> i], [i \in 1..n |-> n + 1 - i]}
    \cup (IF n >= 1 THEN {[i \in 1..(n + 1) |-> IF i > n THEN 1 ELSE i]} ELSE {})
ParamNamings == {"synthetic", "given", "mixed"}
ParamOids == {23, 25, UserArrayOid}
paramOf(k, naming, oid) ==
    LET synthetic == naming = "synthetic" \/ (naming = "mixed" /\ k > 1)
    IN  [name |-> IF synthetic THEN syntheticName(k) ELSE givenName(k),
         synthetic |-> synthetic,
         type |-> [oid |-> oid],
         nullable |-> FALSE]
sqlOf(order) ==
    <<"SELECT ">>
    \o Flatten([i \in 1..Len(order) |->
                    (IF i > 1 THEN <<", ">> ELSE <<>>) \o placeholder(order[i])])
StatementsWith(n) ==
    {[sql |-> sqlOf(order),
      placeholders |-> order,
      params |-> [k \in 1..n |-> paramOf(k, naming, oid)]] :
        order \in ParamOrders(n), naming \in ParamNamings, oid \in ParamOids}
QueryStatements == UNION {StatementsWith(n) : n \in 0..MaxParams}

-----------------------------------------------------------------------------
(* clients.ts.  Client objects live on a heap (a sequence, an object's     *)
(* identity is its index); a Clients record refers to them.                *)

Connection == "conn"

\* A plausible bug: the new type client starts without transforms.
clearCacheTypeClientBare(cl, tcs, types) == typeClient(NoTransforms, types)

\* clearCache: the type client clearCache puts in the returned Clients.
clearCacheTypeClient(cl, tcs, types) ==
    typeClient(tcs[cl.types].transforms, types)

\* clearCache: { ...clients, types }.
clearCache(cl, newTypes) == [cl EXCEPT !.types = newTypes]

-----------------------------------------------------------------------------
(* Analyses on one connection.                                             *)

NoGen == [target |-> "none"]

\* Before watchDirectories: no watcher, an empty buffer, the flag down.
NotWatching ==
    /\ watching = FALSE
    /\ eventBuffer = <<>>
    /\ handlingEvents = FALSE
    /\ moduleDirs = <<>>
    /\ inFlight = <<>>
    /\ nEvents = 0

\* No query text is being generated.
NoQuery ==
    /\ qtypes = <<>>
    /\ qstmt = <<>>
    /\ qtext = [target |-> "none"]

InitAnalysis ==
    /\ NotWatching
    /\ NoQuery
    /\ opts = [check |-> FALSE]
    /\ dirents = <<>>
    /\ texts = <<>>
    /\ fs = <<>>
    /\ fs0 = <<>>
    /\ tasks = <<>>
    /\ fileResults = <<>>
    /\ dirResults = <<>>
    /\ status = "idle"
    /\ tfile = <<>>
    /\ tresult = [tag |-> "idle"]
    /\ catalog \in SUBSET TableColumns
    /\ pgTypes = {}
    /\ schemaClients = <<NoFacts>>
    /\ \E tr \in {NoTransforms, TextTransform} :
          typeClients = <<typeClient(tr, pgTypes)>>
    /\ clients = [postgres |-> Connection, schema |-> 1, types |-> 1]
    /\ prevClients = clients
    /\ sql = BadPlaceholderText
    /\ result = [e |-> Left(ErrorMessage("none", {})), trace |-> <<>>]
    /\ gen = NoGen

\* sqlToStatementDescription(clients, sql) on one of the texts.
AnalyzeText(choices) ==
    \E text \in choices :
        LET r == sqlToStatementDescription(schemaClients[clients.schema],
                                           catalog, text)
        IN  /\ sql' = text
            /\ result' = [e |-> r.e, trace |-> r.trace]
            /\ schemaClients' = [schemaClients EXCEPT ![clients.schema] = r.cache]
            /\ gen' = NoGen
            /\ UNCHANGED <<catalog, typeClients, pgTypes, clients, prevClients, tvars, qvars, cvars, wvars>>

Analyze == AnalyzeText(SqlTexts)

\* The texts that select at most one column of table t.
TableTexts == {t \in SqlTexts : Len(t.columns) <= 1 /\ t.unresolved = 0
                                 /\ t.rowCount \in {"zero", "many"}}

AnalyzeTable == AnalyzeText(TableTexts)

\* generateTSCode on the statement just described.
GenerateTS ==
    /\ isRight(result.e)
    /\ gen = NoGen
    /\ \E target \in CodegenTargets :
          gen' = generateTypeScript(typeClients[clients.types], "q.sql", target,
                                    target, "q", result.e.val.value)
    /\ UNCHANGED <<catalog, schemaClients, typeClients, pgTypes, clients,
                   prevClients, sql, result, tvars, qvars, cvars, wvars>>

\* Somebody changes the schema: a NOT NULL constraint is added or dropped.
AlterColumn ==
    /\ \E c \in TableColumns :
          catalog' = IF c \in catalog THEN catalog \ {c} ELSE catalog \cup {c}
    /\ UNCHANGED <<schemaClients, typeClients, pgTypes, clients, prevClients,
                   sql, result, gen, tvars, qvars, cvars, wvars>>

\* Somebody creates a user-defined array type.
CreateType ==
    /\ UserArrayOid \notin pgTypes
    /\ pgTypes' = pgTypes \cup {UserArrayOid}
    /\ UNCHANGED <<catalog, schemaClients, typeClients, clients, prevClients,
                   sql, result, gen, tvars, qvars, cvars, wvars>>

\* clients = await clearCache(clients)
ClearCache ==
    /\ Len(typeClients) <= MaxClears
    /\ typeClients' = Append(typeClients,
                             clearCacheTypeClient(clients, typeClients, pgTypes))
    /\ clients' = clearCache(clients, Len(typeClients) + 1)
    /\ prevClients' = clients
    /\ UNCHANGED <<catalog, schemaClients, pgTypes, sql, result, gen, tvars, qvars, cvars, wvars>>

NextAnalysis == Analyze \/ GenerateTS

NextCache == AnalyzeTable \/ AlterColumn \/ CreateType \/ ClearCache

SpecAnalysis == InitAnalysis /\ [][NextAnalysis]_vars

SpecCache == InitAnalysis /\ [][NextCache]_vars

-----------------------------------------------------------------------------
(* Properties of the analysis pipeline and the generator.                  *)

Analyzed == result.trace # <<>>
HasDuplicate(names) ==
    \E i, j \in 1..Len(names) : i # j /\ names[i] = names[j]
ColumnNamesOf(stmt) == [i \in 1..Len(stmt.columns) |-> stmt.columns[i].name]
\* The statement the describer hands to validateStatement for the text sql.
DescribedStmt == describeStatement(preprocessSQL(sql).val).val
ReachesValidate == sql.placeholdersOk /\ sql.serverAccepts

\* C1: validateStatement returns a Left exactly when a column name occurs
\* more than once and otherwise returns the statement unchanged; so a
\* successful sqlToStatementDescription has no duplicate column name and
\* keeps the names the server reported, and a duplicate ends the analysis
\* with the duplicate-columns error.
C1_DuplicateColumnsRejected ==
    (Analyzed /\ ReachesValidate) =>
        /\ isLeft(validateStatement(DescribedStmt)) <=> HasDuplicate(sql.columns)
        /\ isRight(validateStatement(DescribedStmt)) =>
              validateStatement(DescribedStmt).val = DescribedStmt
        /\ isRight(result.e) =>
              /\ ~HasDuplicate(ColumnNamesOf(result.e.val.value))
              /\ ColumnNamesOf(result.e.val.value) = sql.columns
        /\ HasDuplicate(sql.columns) =>
              /\ isLeft(result.e)
              /\ result.e.val.message = "Duplicate output columns"

C1_Witness ==
    /\ Analyzed
    /\ sql.columns = <<"id", "name", "id">>
    /\ isLeft(result.e)
    /\ result.e.val.detail = {"id"}

AllStages == <<"preprocess", "describe", "validate", "infer">>

\* C3: the stages run in the order preprocess, describe, validate, infer;
\* a failing stage is the last one invoked and its error is the result; when
\* the first three succeed inference runs and the result is a success.
C3_StagesInOrder ==
    Analyzed =>
        /\ Len(result.trace) <= 4
        /\ result.trace = SubSeq(AllStages, 1, Len(result.trace))
        /\ ~sql.placeholdersOk =>
              /\ result.trace = <<"preprocess">>
              /\ isLeft(result.e) /\ result.e.val.message = "Malformed placeholder"
        /\ (sql.placeholdersOk /\ ~sql.serverAccepts) =>
              /\ result.trace = <<"preprocess", "describe">>
              /\ isLeft(result.e) /\ result.e.val.message = "Server error"
        /\ (ReachesValidate /\ HasDuplicate(sql.columns)) =>
              /\ result.trace = <<"preprocess", "describe", "validate">>
              /\ isLeft(result.e)
              /\ result.e.val.message = "Duplicate output columns"
        /\ (ReachesValidate /\ ~HasDuplicate(sql.columns)) =>
              /\ result.trace = AllStages
              /\ isRight(result.e)
              /\ Len(result.e.val.warnings) = sql.unresolved
        /\ isLeft(result.e) => Len(result.trace) <= 3

C3_Witness ==
    /\ result.trace = <<"preprocess", "describe">>
    /\ isLeft(result.e)
    /\ sql = ServerErrorText

\* The row record type of the statement just described.
RowTypeOf(stmt) ==
    <<"{ ">>
    \o Join([i \in 1..Len(stmt.columns) |->
                columnType(typeClients[clients.types], stmt.columns[i])], "; ")
    \o <<" }">>

\* C9: for each cardinality class and each target the generated return type
\* and return value agree: zero, number and the row count; one, the row type
\* and the first row; zeroOrOne, row type or null and the first row if the
\* count is positive, else null; many, an array of the row type and all rows.
C9_ReturnTypeMatchesValue ==
    gen.target # "none" =>
        LET stmt == result.e.val.value
            rows == IF gen.target = "pg" THEN "result.rows" ELSE "result"
            count == IF gen.target = "pg" THEN "result.rowCount" ELSE "result.count"
        IN  /\ stmt.rowCount \in RowCounts
            /\ stmt.rowCount = "zero" =>
                  /\ gen.returnType = <<"number">>
                  /\ gen.outputValue = <<count>>
                  /\ \A i \in 1..Len(gen.outputValue) : gen.outputValue[i] # rows
            /\ stmt.rowCount = "one" =>
                  /\ gen.returnType = RowTypeOf(stmt)
                  /\ gen.outputValue = <<rows, "[0]">>
            /\ stmt.rowCount = "zeroOrOne" =>
                  /\ gen.returnType = RowTypeOf(stmt) \o <<" | null">>
                  /\ gen.outputValue = <<count, " > 0 ? ", rows, "[0]", " : null">>
            /\ stmt.rowCount = "many" =>
                  /\ gen.returnType = <<"Array<">> \o RowTypeOf(stmt) \o <<">">>
                  /\ gen.outputValue = <<rows>>

C9_Witness ==
    /\ gen.target = "postgres"
    /\ isRight(result.e)
    /\ result.e.val.value.rowCount = "zeroOrOne"
    /\ Len(result.e.val.value.columns) = 2

\* C4: a clearCache call leaves no catalog facts in the schema client of the
\* Clients it returns and gives it a type cache read from the database anew.
C4_ClearCacheDropsEveryEntry ==
    [][Len(typeClients') > Len(typeClients) =>
          /\ ~schemaClients'[clients'.schema].known
          /\ typeClients'[clients'.types].arrays = pgTypes']_vars

-----------------------------------------------------------------------------
(* cli.ts getTransforms.  The parsed file is null, some value that is not  *)
(* an object, or an object: its keys in for-in order, each with its value. *)
(* An entry's value is null or has the two fields, each of which is        *)
(* missing ("undefined"), the empty string or a name.                      *)

KeyStrings == {"23", "25", "025"}
parseInt == [k \in KeyStrings |-> IF k = "23" THEN 23 ELSE 25]
FieldValues == {"undefined", "", "T"}
EntryValues ==
    {[isNull |-> TRUE, tsType |-> "undefined", serializeFunc |-> "undefined"]}
    \cup {[isNull |-> FALSE, tsType |-> t, serializeFunc |-> f] :
             t \in FieldValues, f \in FieldValues}
Entries == [key : KeyStrings, val : EntryValues]
TransformFiles ==
    {[kind |-> "other", entries |-> <<>>], [kind |-> "null", entries |-> <<>>]}
    \cup {[kind |-> "object", entries |-> es] :
             es \in {x \in SeqsUpTo(Entries, MaxEntries) :
                        \A i, j \in 1..Len(x) : i # j => x[i].key # x[j].key}}

\* JavaScript truthiness of a field: missing and empty are both falsy.
truthy(field) == field # "undefined" /\ field # ""

RECURSIVE transformsLoop(_, _, _)
\* A plausible bug: an entry is accepted on its tsType alone.
transformsLoopTsTypeOnly(entries, i, map) ==
    IF i > Len(entries) THEN [tag |-> "map", map |-> map]
    ELSE IF ~entries[i].val.isNull /\ truthy(entries[i].val.tsType)
         THEN transformsLoop(entries, i + 1,
                             (parseInt[entries[i].key] :> entries[i].val) @@ map)
         ELSE [tag |-> "throw", error |-> "Invalid transforms structure"]

\* The for-in loop of getTransforms from entry i on, map being built.
transformsLoop(entries, i, map) ==
    IF i > Len(entries) THEN [tag |-> "map", map |-> map]
    ELSE IF /\ ~entries[i].val.isNull
            /\ truthy(entries[i].val.tsType)
            /\ truthy(entries[i].val.serializeFunc)
         THEN transformsLoop(entries, i + 1,
                             (parseInt[entries[i].key] :> entries[i].val) @@ map)
         ELSE [tag |-> "throw", error |-> "Invalid transforms structure"]

\* typeof null is 'object' and for-in over null runs no iteration.
getTransforms(file) ==
    IF file.kind \in {"object", "null"}
    THEN transformsLoop(file.entries, 1, NoTransforms)
    ELSE [tag |-> "throw",
          error |-> "Invalid transforms structure, should be an object"]

InitTransforms ==
    /\ NotWatching
    /\ NoQuery
    /\ opts = [check |-> FALSE]
    /\ dirents = <<>>
    /\ texts = <<>>
    /\ fs = <<>>
    /\ fs0 = <<>>
    /\ tasks = <<>>
    /\ fileResults = <<>>
    /\ dirResults = <<>>
    /\ status = "idle"
    /\ tfile \in TransformFiles
    /\ tresult = [tag |-> "idle"]
    /\ catalog = {}
    /\ pgTypes = {}
    /\ schemaClients = <<NoFacts>>
    /\ typeClients = <<typeClient(NoTransforms, {})>>
    /\ clients = [postgres |-> Connection, schema |-> 1, types |-> 1]
    /\ prevClients = clients
    /\ sql = BadPlaceholderText
    /\ result = [e |-> Left(ErrorMessage("none", {})), trace |-> <<>>]
    /\ gen = NoGen

\* main: transforms = await getTransforms(args.transforms)
LoadTransforms ==
    /\ tresult.tag = "idle"
    /\ tresult' = getTransforms(tfile)
    /\ UNCHANGED <<tfile, avars, cvars, wvars, qvars>>

NextTransforms == LoadTransforms

SpecTransforms == InitTransforms /\ [][NextTransforms]_vars

Lacks(val) ==
    val.isNull \/ val.tsType = "undefined" \/ val.serializeFunc = "undefined"

\* C8: getTransforms throws whenever some entry lacks tsType or
\* serializeFunc, and returns a map only when every entry has both.
C8_TransformsValidated ==
    tresult.tag # "idle" =>
        /\ (\E i \in 1..Len(tfile.entries) : Lacks(tfile.entries[i].val))
              => tresult.tag = "throw"
        /\ tresult.tag = "map" =>
              /\ \A i \in 1..Len(tfile.entries) : ~Lacks(tfile.entries[i].val)
              /\ \A k \in DOMAIN tresult.map :
                    ~Lacks(tresult.map[k])

C8_Witness ==
    /\ tresult.tag = "throw"
    /\ Len(tfile.entries) = 2
    /\ ~Lacks(tfile.entries[1].val)
    /\ tfile.entries[2].val.isNull = FALSE
    /\ tfile.entries[2].val.tsType = "T"
    /\ tfile.entries[2].val.serializeFunc = "undefined"

-----------------------------------------------------------------------------
(* The command line tool (cli.ts): files, paths and options.               *)
(*                                                                         *)
(* A path is kept parsed, as path.parse gives it: directory, name and      *)
(* extension.  The directory d holds the nested directory d/n.             *)

Dirs == {"d", "d/n"}
TopDirs == <<"d">>
nestedDirsOf == [x \in Dirs |-> IF x = "d" THEN <<"d/n">> ELSE <<>>]
\* path.relative(dirPath, dir.dirPath) of a nested directory
relativeName == [x \in Dirs |-> IF x = "d/n" THEN "n" ELSE "d"]

Path(dir, name, ext) == [dir |-> dir, name |-> name, ext |-> ext]
UserSql == Path("d", "get-user", ".sql")
UserPsql == Path("d", "get-user", ".psql")
ListSql == Path("d/n", "list", ".sql")
SqlFiles == {UserSql, UserPsql, ListSql}
Stems == {f.name : f \in SqlFiles}
camelCase == [n \in Stems |-> IF n = "get-user" THEN "getUser" ELSE n]
\* localeCompare order of the output file names
nameRank == [n \in Stems |-> IF n = "get-user" THEN 1 ELSE 2]

getOutputPath(filePath) == [filePath EXCEPT !.ext = ".ts"]
basename(filePath) == <<filePath.name, filePath.ext>>
funcName(filePath) == camelCase[filePath.name]
indexPath(dirPath) == Path(dirPath, "index", ".ts")
TsPaths == {getOutputPath(f) : f \in SqlFiles}
OutputPaths == TsPaths \cup {indexPath(x) : x \in Dirs}

\* extensions(args.ext) for -e sql and -e sql,psql
ExtensionLists == {<<".sql">>, <<".sql", ".psql">>}
hasOneOfExtensions(exts, filePath) ==
    \E i \in 1..Len(exts) : exts[i] = filePath.ext

\* Options and the mode of the run, from parseArgs.  module defaults to the
\* target.  The runs are plain pg runs and prettified postgres runs.
OptionSets ==
    {[check |-> c, watch |-> FALSE, index |-> ix, prettify |-> pr,
      target |-> IF pr THEN "postgres" ELSE "pg",
      module |-> IF pr THEN "postgres" ELSE "pg", exts |-> ex] :
        c \in BOOLEAN, ix \in BOOLEAN, ex \in ExtensionLists, pr \in BOOLEAN}

\* The texts of the SQL files: one that analyses cleanly, one that analyses
\* with warnings, one whose analysis fails (two columns of the same name).
CleanText ==
    [placeholdersOk |-> TRUE, serverAccepts |-> TRUE, columns |-> <<"id">>,
     rowCount |-> "one", unresolved |-> 0]
WarnText ==
    [placeholdersOk |-> TRUE, serverAccepts |-> TRUE, columns |-> <<"id", "name">>,
     rowCount |-> "many", unresolved |-> MaxWarnings]
DupText ==
    [placeholdersOk |-> TRUE, serverAccepts |-> TRUE, columns |-> <<"id", "id">>,
     rowCount |-> "many", unresolved |-> 0]
CliTexts == {CleanText, WarnText, DupText}

\* File contents: no file, a generated module, a generated index, or some
\* other text.  Two contents are the same text when kind, formatting and
\* body agree.
NoFile == [kind |-> "none", pretty |-> FALSE, body |-> <<>>]
StaleFile == [kind |-> "stale", pretty |-> FALSE, body |-> <<>>]
SameText(a, b) == a.kind = b.kind /\ a.pretty = b.pretty /\ a.body = b.body

isFileOutOfDate(fsys, filePath, newContents) ==
    ~SameText(fsys[filePath], newContents)

\* index.ts generateTSCode: generateTypeScript, then prettier when asked.
generateTSCode(tc, sourceFileName, stmt, fnName, options) ==
    [kind |-> "ts",
     pretty |-> options.prettify,
     body |-> generateTypeScript(tc, sourceFileName, options.target,
                                 options.module, fnName, stmt)]

TsModule(filePath) ==
    [sqlFileName |-> basename(filePath),
     tsFileName |-> basename(getOutputPath(filePath)),
     funcName |-> funcName(filePath)]

\* A plausible bug: the error branch removes the output file in every mode.
settleFileAlwaysRemoves(st, filePath, checkOnly, d, tsCode, outOfDate) ==
    LET tsPath == getOutputPath(filePath)
        outcome == IF isLeft(d.e) THEN "error"
                   ELSE IF outOfDate /\ checkOnly THEN "out of date" ELSE "ok"
        written == IF outcome = "ok" /\ outOfDate
                   THEN [st.fs EXCEPT ![tsPath] = tsCode] ELSE st.fs
        removed == IF outcome # "ok"
                   THEN [written EXCEPT ![tsPath] = NoFile] ELSE written
    IN  [fs |-> removed, cache |-> d.cache,
         module |-> IF outcome = "ok" THEN Some(TsModule(filePath)) ELSE None,
         warnings |-> IF isRight(d.e) THEN Len(d.e.val.warnings) ELSE 0,
         generated |-> isRight(d.e)]

\* The tail of processSQLFile, d being the analysis' result, tsCode the
\* generated module (when d is a Right) and outOfDate what isFileOutOfDate
\* says of it: write the module when it is out of date (or, checking, fail
\* with 'out of date'); on any failure print it and, unless checking,
\* remove the output file; a module (Some) only on success.
settleFile(st, filePath, checkOnly, d, tsCode, outOfDate) ==
    LET tsPath == getOutputPath(filePath)
        outcome == IF isLeft(d.e) THEN "error"
                   ELSE IF outOfDate /\ checkOnly THEN "out of date" ELSE "ok"
        written == IF outcome = "ok" /\ outOfDate
                   THEN [st.fs EXCEPT ![tsPath] = tsCode] ELSE st.fs
        removed == IF outcome # "ok" /\ ~checkOnly
                   THEN [written EXCEPT ![tsPath] = NoFile] ELSE written
    IN  [fs |-> removed, cache |-> d.cache,
         module |-> IF outcome = "ok" THEN Some(TsModule(filePath)) ELSE None,
         warnings |-> IF isRight(d.e) THEN Len(d.e.val.warnings) ELSE 0,
         generated |-> isRight(d.e)]

compareFile(st, filePath, checkOnly, d, tsCode) ==
    settleFile(st, filePath, checkOnly, d, tsCode,
               isRight(d.e) /\ isFileOutOfDate(st.fs, getOutputPath(filePath), tsCode))

\* The middle of processSQLFile: Warn.split and generateTSCode on a Right.
generateFile(st, filePath, checkOnly, options, d) ==
    only({compareFile(st, filePath, checkOnly, d, tsCode) :
            tsCode \in {IF isLeft(d.e) THEN NoFile
                        ELSE generateTSCode(typeClients[clients.types],
                                            basename(filePath), d.e.val.value,
                                            funcName(filePath), options)}})

\* An analysis whose warnings are turned into an error.
warningsAsError(d) ==
    [d EXCEPT !.e = IF isRight(d.e) /\ Len(d.e.val.warnings) > 0
                    THEN Left(ErrorMessage("warnings", {})) ELSE d.e]

\* A plausible bug: warnings are handled like an error.
processSQLFileWarnFails(st, filePath, checkOnly, options) ==
    only({generateFile(st, filePath, checkOnly, options, warningsAsError(d)) :
            d \in {sqlToStatementDescription(st.cache, catalog, texts[filePath])}})

\* processSQLFile, on the output files and the schema cache st: read and
\* analyse the text, then generate, compare and write or remove.
processSQLFile(st, filePath, checkOnly, options) ==
    only({generateFile(st, filePath, checkOnly, options, d) :
            d \in {sqlToStatementDescription(st.cache, catalog, texts[filePath])}})

-----------------------------------------------------------------------------
(* Directories: the index module and the directory processors.             *)

RECURSIVE moduleDirContainsSqlFiles(_)
moduleDirContainsSqlFiles(dir) ==
    \/ Len(dir.modules) > 0
    \/ \E i \in 1..Len(dir.nestedDirs) :
          moduleDirContainsSqlFiles(dir.nestedDirs[i])

RECURSIVE sortModules(_)
\* Array.sort by tsFileName (a stable sort): the last module goes behind
\* every module that does not come after it.
sortModules(modules) ==
    IF Len(modules) <= 1 THEN modules
    ELSE LET rest == sortModules(SubSeq(modules, 1, Len(modules) - 1))
             m == modules[Len(modules)]
             k == Cardinality({i \in 1..Len(rest) :
                     nameRank[rest[i].tsFileName[1]] <= nameRank[m.tsFileName[1]]})
         IN  SubSeq(rest, 1, k) \o <<m>> \o SubSeq(rest, k + 1, Len(rest))

\* codegen.ts generateIndexModule: one export line per nested directory and
\* one per module, from the module's file name without its extension.
generateIndexModule(dirPath, nestedDirs, modules) ==
    [nested |-> [i \in 1..Len(nestedDirs) |-> relativeName[nestedDirs[i].dirPath]],
     modules |-> [i \in 1..Len(modules) |->
                     [funcName |-> modules[i].funcName,
                      from |-> modules[i].tsFileName[1]]]]

indexModuleTS(dirPath, nestedDirs, tsModules, prettify) ==
    [kind |-> "index",
     pretty |-> prettify,
     body |-> generateIndexModule(dirPath, nestedDirs, tsModules)]

\* maybeWriteIndexModule: the output files afterwards (it returns tsModules
\* as it got them).
maybeWriteIndexModule(fsys, write, dirPath, nestedDirs, tsModules, prettify) ==
    LET tsPath == indexPath(dirPath)
        tsCode == indexModuleTS(dirPath,
                                SelectSeq(nestedDirs, moduleDirContainsSqlFiles),
                                sortModules(tsModules), prettify)
    IN  IF write /\ (\/ Len(tsModules) > 0
                     \/ \E i \in 1..Len(nestedDirs) :
                           moduleDirContainsSqlFiles(nestedDirs[i]))
        THEN IF isFileOutOfDate(fsys, tsPath, tsCode)
             THEN [fsys EXCEPT ![tsPath] = tsCode]
             ELSE fsys
        ELSE fsys

\* Array.filterMap(identity)
successfulModulesOf(modules) ==
    LET kept == SelectSeq(modules, isSome)
    IN  [i \in 1..Len(kept) |-> kept[i].val]

processSQLDirectory(fsys, dirPath, nestedDirs, modules, options) ==
    LET successfulModules == successfulModulesOf(modules)
        hasErrors == \E i \in 1..Len(modules) : isNone(modules[i])
    IN  [fs |-> maybeWriteIndexModule(fsys, options.index, dirPath, nestedDirs,
                                      successfulModules, options.prettify),
         val |-> [hasErrors |-> hasErrors, dirPath |-> dirPath,
                  modules |-> successfulModules, nestedDirs |-> nestedDirs]]

checkDirectoryResult(tsModules) ==
    \A i \in 1..Len(tsModules) : isSome(tsModules[i])

-----------------------------------------------------------------------------
(* mapDirectories: the order in which files and directories are handled.   *)

\* findSQLFilePaths, entries being what readdir lists in each directory.
findSQLFilePaths(entries, dirPath, fileExtensions) ==
    [sqlFiles |-> SelectSeq(entries[dirPath],
                            LAMBDA f : hasOneOfExtensions(fileExtensions, f)),
     nestedDirs |-> nestedDirsOf[dirPath]]

FileTask(filePath) ==
    [kind |-> "file", dir |-> filePath.dir, files |-> <<filePath>>, nested |-> <<>>]
DirTask(dirPath, res) ==
    [kind |-> "dir", dir |-> dirPath, files |-> res.sqlFiles, nested |-> res.nestedDirs]

RECURSIVE mapDirectory(_, _, _)
RECURSIVE mapDirectories(_, _, _)
\* mapDirectory: the nested directories, then the files, then the directory.
mapDirectory(entries, dirPath, fileExtensions) ==
    LET res == findSQLFilePaths(entries, dirPath, fileExtensions)
    IN  mapDirectories(entries, res.nestedDirs, fileExtensions)
        \o [i \in 1..Len(res.sqlFiles) |-> FileTask(res.sqlFiles[i])]
        \o <<DirTask(dirPath, res)>>

\* traverseATs(dirPaths, mapDirectory): one directory after the other.
mapDirectories(entries, dirPaths, fileExtensions) ==
    IF dirPaths = <<>> THEN <<>>
    ELSE mapDirectory(entries, Head(dirPaths), fileExtensions)
         \o mapDirectories(entries, Tail(dirPaths), fileExtensions)

Pending == [tag |-> "pending", count |-> 0]

\* The state a run works on: the output files, the schema client's cache
\* and the results collected so far.
RunState(fsys, cache, files, dirs) ==
    [fs |-> fsys, cache |-> cache, fileResults |-> files, dirResults |-> dirs]

\* fileProcessor(filePath): processSQLFile, checking or not.
collectFile(st, f, r) ==
    [st EXCEPT !.fs = r.fs,
               !.cache = r.cache,
               !.fileResults[f] =
                   [tag |-> "done", count |-> @.count + 1,
                    module |-> r.module, warnings |-> r.warnings,
                    generated |-> r.generated]]
fileStep(st, task, options) ==
    collectFile(st, task.files[1],
                processSQLFile([fs |-> st.fs, cache |-> st.cache], task.files[1],
                               options.check, options))

fileModules(st, task) ==
    [i \in 1..Len(task.files) |-> st.fileResults[task.files[i]].module]
nestedResults(st, task) ==
    [i \in 1..Len(task.nested) |-> st.dirResults[task.nested[i]].val]

\* dirProcessor(dirPath, processedDirs, processedFiles): checkDirectoryResult
\* when checking, else processSQLDirectory.
dirStep(st, task, options) ==
    LET r == processSQLDirectory(st.fs, task.dir, nestedResults(st, task),
                                 fileModules(st, task), options)
    IN  IF options.check
        THEN [st EXCEPT !.dirResults[task.dir] =
                 [tag |-> "done", count |-> @.count + 1,
                  val |-> checkDirectoryResult(fileModules(st, task))]]
        ELSE [st EXCEPT !.fs = r.fs,
                        !.dirResults[task.dir] =
                            [tag |-> "done", count |-> @.count + 1, val |-> r.val]]

RECURSIVE runTasks(_, _, _)
\* The whole of mapDirectories: every task in order.
runTasks(st, todo, options) ==
    IF todo = <<>> THEN st
    ELSE runTasks(IF Head(todo).kind = "file"
                  THEN fileStep(st, Head(todo), options)
                  ELSE dirStep(st, Head(todo), options),
                  Tail(todo), options)

\* main: the exit status of a --check run.
checkStatus(dirPaths, results) ==
    IF \A i \in 1..Len(dirPaths) : results[dirPaths[i]].val THEN "0" ELSE "1"

\* main: the exit status of a generating run.
processStatus(dirPaths, results) ==
    IF \E i \in 1..Len(dirPaths) : results[dirPaths[i]].val.hasErrors
    THEN "1" ELSE "0"

-----------------------------------------------------------------------------
(* A run of the tool over the directories.                                 *)

\* The module processSQLFile generates for a file, or no file when its
\* analysis fails.
CodeFor(filePath) ==
    LET d == sqlToStatementDescription(NoFacts, catalog, texts[filePath])
    IN  IF isLeft(d.e) THEN NoFile
        ELSE generateTSCode(typeClients[clients.types], basename(filePath),
                            d.e.val.value, funcName(filePath), opts)

\* The directories' entries, file f removed.
Without(entries, f) ==
    [x \in Dirs |-> SelectSeq(entries[x], LAMBDA g : g # f)]

Present(filePath) ==
    \E i \in 1..Len(dirents[filePath.dir]) : dirents[filePath.dir][i] = filePath

\* What an output file may hold before the run.
InitialContents(tsPath) ==
    {NoFile, StaleFile}
    \cup {CodeFor(f) : f \in {g \in SqlFiles : Present(g) /\ getOutputPath(g) = tsPath}}

InitCli ==
    /\ NotWatching
    /\ NoQuery
    /\ tfile = <<>>
    /\ tresult = [tag |-> "idle"]
    /\ catalog = TableColumns
    /\ pgTypes = {}
    /\ schemaClients = <<NoFacts>>
    /\ typeClients = <<typeClient(NoTransforms, pgTypes)>>
    /\ clients = [postgres |-> Connection, schema |-> 1, types |-> 1]
    /\ prevClients = clients
    /\ sql = BadPlaceholderText
    /\ result = [e |-> Left(ErrorMessage("none", {})), trace |-> <<>>]
    /\ gen = NoGen
    /\ opts \in OptionSets
    /\ \E ds \in {<<>>, <<UserSql>>, <<UserPsql>>, <<UserSql, UserPsql>>,
                  <<UserPsql, UserSql>>},
          ns \in {<<>>, <<ListSql>>} :
          dirents = [x \in Dirs |-> IF x = "d" THEN ds ELSE ns]
    /\ texts \in {t \in [SqlFiles -> CliTexts] :
                     \A f \in SqlFiles : ~Present(f) => t[f] = CleanText}
    /\ \E cu \in InitialContents(getOutputPath(UserSql)),
          cl \in InitialContents(getOutputPath(ListSql)),
          ci \in {NoFile, StaleFile} :
          fs = [p \in OutputPaths |->
                  IF p = getOutputPath(UserSql) THEN cu
                  ELSE IF p = getOutputPath(ListSql) THEN cl
                  ELSE ci]
    /\ fs0 = fs
    /\ tasks = mapDirectories(dirents, TopDirs, opts.exts)
    /\ fileResults = [f \in SqlFiles |-> Pending]
    /\ dirResults = [x \in Dirs |-> Pending]
    /\ status = "running"

CurrentState ==
    RunState(fs, schemaClients[clients.schema], fileResults, dirResults)

\* The next step of mapDirectories is a file: fileProcessor(filePath).
ProcessFileStep ==
    /\ tasks # <<>>
    /\ Head(tasks).kind = "file"
    /\ \E st \in {fileStep(CurrentState, Head(tasks), opts)} :
           /\ fs' = st.fs
           /\ schemaClients' = [schemaClients EXCEPT ![clients.schema] = st.cache]
           /\ fileResults' = st.fileResults
    /\ tasks' = Tail(tasks)
    /\ UNCHANGED <<catalog, typeClients, pgTypes, clients, prevClients, sql,
                   result, gen, tvars, qvars, opts, dirents, texts, fs0, dirResults,
                   status>>

ProcessFile == ProcessFileStep /\ UNCHANGED wvars

\* The next step of mapDirectories is a directory: dirProcessor(...).
ProcessDir ==
    /\ tasks # <<>>
    /\ Head(tasks).kind = "dir"
    /\ \E st \in {dirStep(CurrentState, Head(tasks), opts)} :
           /\ fs' = st.fs
           /\ dirResults' = st.dirResults
    /\ tasks' = Tail(tasks)
    /\ UNCHANGED <<avars, tvars, qvars, opts, dirents, texts, fs0, fileResults, status,
                   wvars>>

\* main returns the status once every directory is handled.
Exit ==
    /\ tasks = <<>>
    /\ status = "running"
    /\ ~opts.watch
    /\ status' = IF opts.check THEN checkStatus(TopDirs, dirResults)
                 ELSE processStatus(TopDirs, dirResults)
    /\ UNCHANGED <<avars, tvars, qvars, opts, dirents, texts, fs, fs0, tasks,
                   fileResults, dirResults, wvars>>

NextCli == ProcessFile \/ ProcessDir \/ Exit

SpecCli == InitCli /\ [][NextCli]_vars

-----------------------------------------------------------------------------
(* Watch mode: watchDirectories, handleWatchEvents and the event handler.  *)
(*                                                                         *)
(* A processing that has begun and not ended is a record in inFlight: the  *)
(* batch's (fileProcessor on the head of tasks) or a watch event's (the    *)
(* event taken from the buffer and the moduleDirs its handleWatchEvents    *)
(* call holds).  Callbacks run between the awaits of these processings.    *)

WatchOptions ==
    {[check |-> FALSE, watch |-> TRUE, index |-> ix, prettify |-> FALSE,
      target |-> "pg", module |-> "pg", exts |-> ex] :
        ix \in BOOLEAN, ex \in ExtensionLists}

EventTypes == {"update", "remove"}
WatchEvent(type, dirPath, filePath) ==
    [type |-> type, dirPath |-> dirPath, file |-> filePath]

\* Array.findIndex over the indices that satisfy the predicate
findIndex(hits) ==
    IF hits = {} THEN -1 ELSE CHOOSE i \in hits : \A j \in hits : i <= j

replaceOrAddTsModule(tsModule, tsModules) ==
    LET index == findIndex({i \in 1..Len(tsModules) :
                               tsModules[i].sqlFileName = tsModule.sqlFileName})
    IN  IF index \in 1..Len(tsModules)
        THEN [tsModules EXCEPT ![index] = tsModule]
        ELSE Append(tsModules, tsModule)

removeTsModule(sqlFileName, tsModules) ==
    SelectSeq(tsModules, LAMBDA mod : mod.sqlFileName # sqlFileName)

removeOutputFile(fsys, filePath) ==
    [fsys EXCEPT ![getOutputPath(filePath)] = NoFile]

\* moduleDirs.find((dir) => dir.dirPath === dirPath): its index, or -1
findModuleDir(dirs, dirPath) ==
    findIndex({i \in 1..Len(dirs) : dirs[i].dirPath = dirPath})

\* The event handler on an event whose SQL file can be read: the output
\* files, the cache and the directory's modules afterwards.
writeIndexAfter(r, nestedDirs, newModules, dirPath, options) ==
    [fs |-> maybeWriteIndexModule(r.fs, options.index, dirPath, nestedDirs,
                                  newModules, options.prettify),
     cache |-> r.cache,
     modules |-> newModules]
modulesAfter(r, nestedDirs, tsModules, dirPath, filePath, options) ==
    writeIndexAfter(r, nestedDirs,
                    IF isSome(r.module)
                    THEN replaceOrAddTsModule(r.module.val, tsModules)
                    ELSE removeTsModule(basename(filePath), tsModules),
                    dirPath, options)
eventHandler(st, nestedDirs, tsModules, type, dirPath, filePath, options) ==
    only({modulesAfter(r, nestedDirs, tsModules, dirPath, filePath, options) :
            r \in {IF type = "update"
                   THEN processSQLFile(st, filePath, FALSE, options)
                   ELSE [fs |-> removeOutputFile(st.fs, filePath),
                         cache |-> st.cache, module |-> None]}})

\* The guard of the watch callback: if (!handlingEvents).
startsHandlingAlways(flag) == TRUE
startsHandling(flag) == ~flag

\* The head of handleWatchEvents' loop, dirs being its moduleDirs: return
\* when the buffer is empty or the event's directory is not among dirs,
\* else shift the event and call the event handler.
takeEvent(dirs, events) ==
    IF events = <<>>
    THEN [returns |-> TRUE, dirs |-> dirs, events |-> events]
    ELSE IF findModuleDir(dirs, Head(events).dirPath) = -1
    THEN [returns |-> TRUE, dirs |-> dirs, events |-> Tail(events)]
    ELSE [returns |-> FALSE, events |-> Tail(events),
          handler |-> [by |-> "watch", event |-> Head(events), dirs |-> dirs]]

BatchProcessing == [by |-> "batch"]

WithoutIndex(q, i) == SubSeq(q, 1, i - 1) \o SubSeq(q, i + 1, Len(q))

InitWatch ==
    /\ NotWatching
    /\ NoQuery
    /\ tfile = <<>>
    /\ tresult = [tag |-> "idle"]
    /\ catalog = TableColumns
    /\ pgTypes = {}
    /\ schemaClients = <<NoFacts>>
    /\ typeClients = <<typeClient(NoTransforms, pgTypes)>>
    /\ clients = [postgres |-> Connection, schema |-> 1, types |-> 1]
    /\ prevClients = clients
    /\ sql = BadPlaceholderText
    /\ result = [e |-> Left(ErrorMessage("none", {})), trace |-> <<>>]
    /\ gen = NoGen
    /\ opts \in WatchOptions
    /\ \E ds \in {<<>>, <<UserSql>>, <<UserSql, UserPsql>>},
          ns \in {<<>>, <<ListSql>>} :
          dirents = [x \in Dirs |-> IF x = "d" THEN ds ELSE ns]
    /\ texts = [f \in SqlFiles |-> CleanText]
    /\ fs = [p \in OutputPaths |-> NoFile]
    /\ fs0 = fs
    /\ tasks = mapDirectories(dirents, TopDirs, opts.exts)
    /\ fileResults = [f \in SqlFiles |-> Pending]
    /\ dirResults = [x \in Dirs |-> Pending]
    /\ status = "running"

\* processDirectories reaches a file: fileProcessor(filePath) begins.
BeginFile ==
    /\ tasks # <<>>
    /\ Head(tasks).kind = "file"
    /\ \A i \in 1..Len(inFlight) : inFlight[i].by # "batch"
    /\ inFlight' = Append(inFlight, BatchProcessing)
    /\ UNCHANGED <<avars, tvars, qvars, cvars, watching, eventBuffer, handlingEvents,
                   moduleDirs, nEvents>>

\* ... and ends.
EndFile ==
    /\ \E i \in 1..Len(inFlight) :
          /\ inFlight[i].by = "batch"
          /\ inFlight' = WithoutIndex(inFlight, i)
    /\ ProcessFileStep
    /\ UNCHANGED <<watching, eventBuffer, handlingEvents, moduleDirs, nEvents>>

\* watchDirectories: processDirectories has returned; the watchers are
\* registered on the directories given.
RegisterWatchers ==
    /\ opts.watch
    /\ ~watching
    /\ tasks = <<>>
    /\ watching' = TRUE
    /\ moduleDirs' = [i \in 1..Len(TopDirs) |-> dirResults[TopDirs[i]].val]
    /\ UNCHANGED <<avars, tvars, qvars, cvars, eventBuffer, handlingEvents, inFlight,
                   nEvents>>

\* What the watch callback does to the buffer, the flag and the handlers
\* on an event: push it; unless events are being handled, raise the flag
\* and call handleWatchEvents, which returns at once or awaits a handler.
Callback(ev) ==
    \E events \in {Append(eventBuffer, ev)} :
        IF startsHandling(handlingEvents)
        THEN \E t \in {takeEvent(moduleDirs, events)} :
                /\ eventBuffer' = t.events
                /\ handlingEvents' = ~t.returns
                /\ inFlight' = IF t.returns THEN inFlight
                               ELSE Append(inFlight, t.handler)
        ELSE /\ eventBuffer' = events
             /\ UNCHANGED <<handlingEvents, inFlight>>

\* Somebody writes or removes a SQL file of a watched directory that passes
\* the filter, and the watcher calls back.
WatchCallback ==
    /\ watching
    /\ nEvents < MaxEvents
    /\ nEvents' = nEvents + 1
    /\ \E i \in 1..Len(TopDirs), type \in EventTypes :
        \E f \in {g \in SqlFiles : g.dir = TopDirs[i]
                                    /\ hasOneOfExtensions(opts.exts, g)} :
          /\ IF type = "update"
             THEN /\ dirents' = IF Present(f) THEN dirents
                                ELSE [dirents EXCEPT ![f.dir] = Append(@, f)]
                  /\ \E t \in CliTexts : texts' = [texts EXCEPT ![f] = t]
             ELSE /\ Present(f)
                  /\ dirents' = Without(dirents, f)
                  /\ UNCHANGED texts
          /\ Callback(WatchEvent(type, TopDirs[i], f))
    /\ UNCHANGED <<avars, tvars, qvars, opts, fs, fs0, tasks, fileResults, dirResults,
                   status, watching, moduleDirs>>

\* The event handler a handleWatchEvents call awaits has finished: the
\* directory's modules are replaced and the loop goes on to the next event,
\* or returns; then the callback assigns moduleDirs and lowers the flag.
HandlerReturns(i, h, r) ==
    \E ds \in {[h.dirs EXCEPT
                   ![findModuleDir(h.dirs, h.event.dirPath)].modules = r.modules]} :
    \E t \in {takeEvent(ds, eventBuffer)} :
        /\ fs' = r.fs
        /\ schemaClients' = [schemaClients EXCEPT ![clients.schema] = r.cache]
        /\ eventBuffer' = t.events
        /\ IF t.returns
           THEN /\ inFlight' = WithoutIndex(inFlight, i)
                /\ moduleDirs' = t.dirs
                /\ handlingEvents' = FALSE
           ELSE /\ inFlight' = [inFlight EXCEPT ![i] = t.handler]
                /\ UNCHANGED <<moduleDirs, handlingEvents>>

\* The SQL file of an update event is gone when processSQLFile reads it:
\* the handler rejects, and with it handleWatchEvents and the callback,
\* before the flag is lowered.
HandlerRejects(i) ==
    /\ inFlight' = WithoutIndex(inFlight, i)
    /\ UNCHANGED <<fs, schemaClients, eventBuffer, moduleDirs, handlingEvents>>

FinishEvent ==
    /\ \E i \in 1..Len(inFlight) :
          /\ inFlight[i].by = "watch"
          /\ \E h \in {inFlight[i]} :
             \E k \in {findModuleDir(h.dirs, h.event.dirPath)} :
                IF h.event.type = "update" /\ ~Present(h.event.file)
                THEN HandlerRejects(i)
                ELSE \E r \in {eventHandler([fs |-> fs,
                                                cache |-> schemaClients[clients.schema]],
                                               h.dirs[k].nestedDirs, h.dirs[k].modules,
                                               h.event.type, h.event.dirPath,
                                               h.event.file, opts)} :
                        HandlerReturns(i, h, r)
    /\ UNCHANGED <<catalog, typeClients, pgTypes, clients, prevClients, sql,
                   result, gen, tvars, qvars, opts, dirents, texts, fs0, tasks,
                   fileResults, dirResults, status, watching, nEvents>>

NextWatch ==
    BeginFile \/ EndFile \/ ProcessDir \/ RegisterWatchers \/ WatchCallback
    \/ FinishEvent

SpecWatch == InitWatch /\ [][NextWatch]_vars

-----------------------------------------------------------------------------
(* Properties of a run.                                                    *)

Finished == status \in {"0", "1"}

\* The SQL files mapDirectories finds under the given directories.
FoundIn(todo) == {todo[i].files[1] : i \in {j \in 1..Len(todo) : todo[j].kind = "file"}}
FoundFiles == FoundIn(mapDirectories(dirents, TopDirs, opts.exts))

\* The analysis of a file's text, as the run makes it.
AnalysisOf(f) ==
    sqlToStatementDescription(schemaClients[clients.schema], catalog, texts[f])

\* What the step that handled file f did, d being the analysis of its text:
\* on success generation ran, a module came back and the output file holds
\* the generated code; on failure nothing was generated, no module came
\* back and the output file holds no code.
HandledAsAnalysed(f, d) ==
    IF isRight(d.e)
    THEN /\ fileResults'[f].generated
         /\ isSome(fileResults'[f].module)
         /\ fileResults'[f].warnings = Len(d.e.val.warnings)
         /\ SameText(fs'[getOutputPath(f)],
                     generateTSCode(typeClients[clients.types], basename(f),
                                    d.e.val.value, funcName(f), opts))
    ELSE /\ ~fileResults'[f].generated
         /\ isNone(fileResults'[f].module)
         /\ fs'[getOutputPath(f)].kind = "none"

\* C2: not checking, a file whose analysis succeeds is generated, written
\* and yields a module whatever the number of its warnings, and a file
\* whose analysis fails is not generated, has no output and yields None.
C2_WarningsNeverBlock ==
    [][\A f \in SqlFiles :
          (status = "running" /\ ~opts.check
           /\ fileResults'[f].count # fileResults[f].count)
              => HandledAsAnalysed(f, AnalysisOf(f))]_vars

C2_Witness ==
    /\ status = "running"
    /\ ~opts.check
    /\ \E f \in SqlFiles :
          /\ fileResults[f].tag = "done"
          /\ fileResults[f].warnings = MaxWarnings
          /\ fileResults[f].warnings > 0
          /\ isSome(fileResults[f].module)
          /\ fs[getOutputPath(f)].kind = "ts"
          /\ fs0[getOutputPath(f)].kind # "ts"

UpToDate(f) ==
    /\ CodeFor(f).kind = "ts"
    /\ SameText(fs0[getOutputPath(f)], CodeFor(f))

\* C5: a --check run exits with 0 exactly when every SQL file found in the
\* directories and their nested directories has an up-to-date output file.
C5_CheckCoversNestedDirectories ==
    (Finished /\ opts.check) =>
        (status = "0" <=> \A f \in FoundFiles : UpToDate(f))

\* C6: a --check run leaves every output file, index.ts included, as it
\* was.
C6_CheckWritesNothing ==
    (status # "idle" /\ opts.check) =>
        \A p \in OutputPaths : SameText(fs[p], fs0[p])

C6_Witness ==
    /\ opts.check
    /\ status = "1"
    /\ \E f \in SqlFiles :
          /\ fileResults[f].tag = "done"
          /\ ~fileResults[f].generated
          /\ fs[getOutputPath(f)].kind = "ts"
    /\ \E g \in SqlFiles :
          /\ fileResults[g].tag = "done"
          /\ fileResults[g].generated
          /\ isNone(fileResults[g].module)

\* The run as it would be with file f absent.
RunWithout(f) ==
    runTasks(RunState(fs0, NoFacts, [g \in SqlFiles |-> Pending],
                      [x \in Dirs |-> Pending]),
             mapDirectories(Without(dirents, f), TopDirs, opts.exts), opts)

SameOutcome(alt, g) ==
    /\ alt.fileResults[g].module.tag = fileResults[g].module.tag
    /\ SameText(alt.fs[getOutputPath(g)], fs[getOutputPath(g)])

\* C10: in a batch run every file found is processed once; a failing file
\* yields no module and marks its own directory only; every other file ends
\* as it would with the failing file absent.
C10_FailuresAreScoped ==
    (Finished /\ ~opts.check) =>
        /\ \A f \in FoundFiles : fileResults[f].count = 1
        /\ \A f \in FoundFiles :
              ~fileResults[f].generated =>
                  /\ isNone(fileResults[f].module)
                  /\ dirResults[f.dir].val.hasErrors
                  /\ \A x \in Dirs \ {f.dir} :
                        dirResults[x].val.hasErrors
                            = RunWithout(f).dirResults[x].val.hasErrors
                  /\ \A g \in FoundFiles \ {f} : SameOutcome(RunWithout(f), g)

\* C7: at most one file processing is in flight at any time, the watchers
\* are registered only when the batch is over, and events are handled only
\* under the flag handlingEvents.
C7_OneProcessingInFlight ==
    /\ Len(inFlight) <= 1
    /\ watching => (tasks = <<>> /\ \A i \in 1..Len(inFlight) : inFlight[i].by = "watch")
    /\ (\E i \in 1..Len(inFlight) : inFlight[i].by = "watch") => handlingEvents

C7_Witness ==
    /\ watching
    /\ handlingEvents
    /\ Len(inFlight) = 1
    /\ inFlight[1].by = "watch"
    /\ Len(eventBuffer) >= 2

\* The module list of a directory as the program holds it: the batch's
\* result, then moduleDirs, or the moduleDirs of the handleWatchEvents call
\* under way.
CurrentDirs ==
    IF \E i \in 1..Len(inFlight) : inFlight[i].by = "watch"
    THEN inFlight[1].dirs
    ELSE moduleDirs
CurrentModules(dirPath) ==
    IF watching /\ findModuleDir(CurrentDirs, dirPath) # -1
    THEN CurrentDirs[findModuleDir(CurrentDirs, dirPath)].modules
    ELSE dirResults[dirPath].val.modules

\* The function exports of the index.ts of a directory, as on disk.
ExportsOnDisk(dirPath) ==
    IF fs[indexPath(dirPath)].kind = "index"
    THEN fs[indexPath(dirPath)].body.modules
    ELSE <<>>

IndexAgrees(dirPath, modules) ==
    /\ Len(ExportsOnDisk(dirPath)) = Len(modules)
    /\ {ExportsOnDisk(dirPath)[i].funcName : i \in 1..Len(ExportsOnDisk(dirPath))}
           = {modules[i].funcName : i \in 1..Len(modules)}

\* A handling run was cut short by a rejecting handler.
CutShort ==
    handlingEvents /\ \A i \in 1..Len(inFlight) : inFlight[i].by # "watch"

\* The batch is over and every event taken up so far was handled.
Settled ==
    /\ opts.check = FALSE
    /\ status = "running"
    /\ tasks = <<>>
    /\ ~CutShort

\* C11: with --index, once the batch is over and after every watch event,
\* the index.ts of a directory exports exactly the functions of the
\* directory's current modules, and none when there are no modules left.
C11_IndexExportsCurrentModules ==
    (Settled /\ opts.index) =>
        \A x \in Dirs : IndexAgrees(x, CurrentModules(x))

-----------------------------------------------------------------------------
(* The query text of statements with params.                               *)

InitQuery ==
    /\ NotWatching
    /\ opts = [check |-> FALSE]
    /\ dirents = <<>>
    /\ texts = <<>>
    /\ fs = <<>>
    /\ fs0 = <<>>
    /\ tasks = <<>>
    /\ fileResults = <<>>
    /\ dirResults = <<>>
    /\ status = "idle"
    /\ tfile = <<>>
    /\ tresult = [tag |-> "idle"]
    /\ catalog = {}
    /\ pgTypes = {}
    /\ schemaClients = <<NoFacts>>
    /\ typeClients = <<typeClient(NoTransforms, {})>>
    /\ clients = [postgres |-> Connection, schema |-> 1, types |-> 1]
    /\ prevClients = clients
    /\ sql = BadPlaceholderText
    /\ result = [e |-> Left(ErrorMessage("none", {})), trace |-> <<>>]
    /\ gen = NoGen
    /\ qtypes \in {typeClient(NoTransforms, {}),
                    typeClient(TextTransform, {UserArrayOid})}
    /\ qstmt \in QueryStatements
    /\ qtext = [target |-> "none"]

\* generateTypeScript builds the query text of the function.
GenerateQuery ==
    /\ qtext.target = "none"
    /\ \E target \in CodegenTargets : qtext' = queryText(qtypes, target, qstmt)
    /\ UNCHANGED <<avars, tvars, cvars, wvars, qtypes, qstmt>>

NextQuery == GenerateQuery

SpecQuery == InitQuery /\ [][NextQuery]_vars

\* The text of the statement with every placeholder replaced by the
\* interpolation of its value, and nothing else.
TextWithValues(order, values) ==
    <<"SELECT ">>
    \o Flatten([i \in 1..Len(order) |->
                    (IF i > 1 THEN <<", ">> ELSE <<>>) \o interpolation(values[order[i]])])

\* C12: for the postgres target the query text is the statement's text with
\* each placeholder $i replaced by the interpolation of the i-th query value
\* and nothing else changed, also with ten and more params.
C12_PlaceholdersSubstituted ==
    qtext.target = "postgres" =>
        qtext.text = TextWithValues(qstmt.placeholders, qtext.values)

-----------------------------------------------------------------------------
(* clearCache and what it leaves alone.                                    *)

\* C13: clearCache returns Clients with the same connection and the same
\* schema client and a new type client that has the transforms of the old
\* one; the Clients handed in and the objects it refers to stay as they were.
C13_ClearCacheChangesTypesOnly ==
    [][Len(typeClients') > Len(typeClients) =>
          /\ clients'.postgres = clients.postgres
          /\ clients'.schema = clients.schema
          /\ schemaClients' = schemaClients
          /\ clients'.types \notin 1..Len(typeClients)
          /\ typeClients'[clients'.types].transforms
                 = typeClients[clients.types].transforms
          /\ prevClients' = clients
          /\ \A i \in 1..Len(typeClients) : typeClients'[i] = typeClients[i]]_vars

C13_Witness ==
    /\ Len(typeClients) >= 2
    /\ clients.types = Len(typeClients)
    /\ prevClients.types # clients.types
    /\ prevClients.schema = clients.schema
    /\ DOMAIN typeClients[clients.types].transforms # {}
    /\ schemaClients[clients.schema].known

-----------------------------------------------------------------------------
(* A generating run followed by a --check run.                             *)

\* The status of a --check run started now: a new process, the same
\* directories, extensions and options, SQL files and schema.
CheckRunStatus ==
    checkStatus(TopDirs,
        runTasks(RunState(fs, NoFacts, [f \in SqlFiles |-> Pending],
                          [x \in Dirs |-> Pending]),
                 mapDirectories(dirents, TopDirs, opts.exts),
                 [opts EXCEPT !.check = TRUE]).dirResults)

\* C14: when a generating run has exited with status 0, a --check run that
\* follows at once exits with status 0.
C14_CheckAfterGenerate ==
    (Finished /\ ~opts.check /\ status = "0") => CheckRunStatus = "0"

-----------------------------------------------------------------------------
(* Watch mode when every step that can be taken is taken: the batch goes   *)
(* on to its end and every handler invocation completes.                   *)

SpecWatchFair ==
    /\ SpecWatch
    /\ WF_vars(BeginFile)
    /\ WF_vars(EndFile)
    /\ WF_vars(ProcessDir)
    /\ WF_vars(RegisterWatchers)
    /\ WF_vars(FinishEvent)

\* C15: the flag handlingEvents is lowered again after every handling run,
\* and the events in the buffer are taken up.
C15_EventsEventuallyHandled ==
    /\ handlingEvents ~> ~handlingEvents
    /\ (eventBuffer # <<>>) ~> (eventBuffer = <<>>)

=============================================================================
